---- MODULE Spec2Model ----
(***************************************************************************)
(* Model of the Enumly derive macro (src/src/lib.rs).                      *)
(*                                                                         *)
(* derive_enumly parses its argument and makes one pass over the parsed    *)
(* DeriveInput.  The model keeps the statements of the function as the     *)
(* steps of a small state machine (the parse, the type attributes, the     *)
(* match on the data kind, the loop over the variants, the expansion) and  *)
(* also gives the whole function as an operator built from the same helper *)
(* definitions.                                                            *)
(*                                                                         *)
(* A TokenStream is a sequence of items: a compile_error item produced by  *)
(* syn::Error::to_compile_error, or the impl block produced by quote!.     *)
(* A span is the place of a token in the declaration: the owner (0 for the *)
(* type, i for the i-th variant), the part of the owner ("ident", "attr",   *)
(* or "expr" for an expression in its fields or discriminant) and, for an  *)
(* attribute, its index in the owner's attribute list.                     *)
(***************************************************************************)
EXTENDS Integers, Sequences, FiniteSets, TLC

\* Bounds of the declarations that are enumerated.
MaxVariants == 2
MaxAttrs == 2
\* Invocations of the derive on the same declaration.
MaxCalls == 2
\* Messages of syn's parse errors that are told apart.
MaxSynMessages == 2

\* ---------------------------------------------------------------- inputs

DataKinds == {"Enum", "Struct", "Union"}
AttrPaths == {"non_exhaustive", "doc"}
FieldsKinds == {"Unit", "Unnamed", "Named"}
VariantNames == {"Red", "Green"}
TypeName == "Color"

SeqsUpTo(S, n) == UNION {[1..k -> S] : k \in 0..n}

NoGenerics == [params |-> <<>>, where_clause |-> <<>>]
SomeGenerics == [params |-> <<[ident |-> "T", bounds |-> <<"Copy">>]>>,
                 where_clause |-> <<"T: Clone">>]
GenericsDecls == {NoGenerics, SomeGenerics}

\* The name and the shape of a variant.
VariantShapes == [ident : VariantNames, fields : FieldsKinds]

RECURSIVE TotalLen(_, _)
TotalLen(f, n) == IF n < 0 THEN 0 ELSE Len(f[n]) + TotalLen(f, n - 1)

\* The attribute lists of the type (at 0) and of its n variants (at 1..n),
\* at most MaxAttrs attributes in the whole declaration.
AttrAssignments(n) ==
    {f \in [0..n -> SeqsUpTo(AttrPaths, MaxAttrs)] : TotalLen(f, n) <= MaxAttrs}

\* The message of a parse error of syn.  syn words its message from the
\* tokens it met ("expected `,`", "unexpected end of input, expected an
\* expression", "unsupported expression; enable syn's features=[\"full\"]",
\* ...) and the function never reads it: it returns it as it is.  The
\* model therefore keeps the message opaque: SynMessage(k) stands for the
\* k-th of the messages syn can give, whatever its text.
SynMessage(k) == "syn message " \o ToString(k)
SynMessages == {SynMessage(k) : k \in 1..MaxSynMessages}

\* What syn does not parse in a declaration of n variants: <<>> when it
\* parses all of it; otherwise the owner of the first token it fails on (0:
\* an attribute, the generics, the where clause or a field of the type
\* itself; i: a field or the discriminant of the i-th variant) and the
\* message of its error.
SynFailures(n) ==
    {<<>>} \cup {<<[owner |-> i, message |-> m]>> : i \in 0..n, m \in SynMessages}

\* An enum declaration from its attribute lists, generics and variants.
EnumDecl(f, g, sh, u) ==
    [kind |-> "Enum", attrs |-> f[0], ident |-> TypeName, generics |-> g,
     unsupported |-> u,
     variants |-> [i \in 1..Len(sh) |-> [attrs |-> f[i], ident |-> sh[i].ident,
                                         fields |-> sh[i].fields]]]

\* A struct or union declaration: it has no variants.
OtherDecl(k, f, g, u) ==
    [kind |-> k, attrs |-> f[0], ident |-> TypeName, generics |-> g,
     unsupported |-> u, variants |-> <<>>]

IdentSpan(owner) == [owner |-> owner, part |-> "ident", index |-> 0]
AttrSpan(owner, j) == [owner |-> owner, part |-> "attr", index |-> j]
ExprSpan(owner) == [owner |-> owner, part |-> "expr", index |-> 0]

ParseAttrs(paths, owner) ==
    [j \in 1..Len(paths) |-> [path |-> paths[j], span |-> AttrSpan(owner, j)]]

ParseVariant(v, i) ==
    [attrs |-> ParseAttrs(v.attrs, i),
     ident |-> [name |-> v.ident, span |-> IdentSpan(i)],
     fields |-> v.fields]

\* ------------------------------------------------------------ diagnostics

MsgInvalidTargetKind == "Enumly can only be derived for enums"
MsgNonUnitVariant ==
    "Enumly only supports unit variants; tuple and struct variants are not allowed"
MsgOpenExtensionNotSupported ==
    "Enumly does not support #[non_exhaustive] enums or variants"

None == [some |-> FALSE]
Some(x) == [some |-> TRUE, value |-> x]

ErrorNew(span, message) == [span |-> span, message |-> message]

\* The syntax tree of a declaration, every token with its span.
SyntaxTree(d) ==
    [attrs |-> ParseAttrs(d.attrs, 0),
     ident |-> [name |-> d.ident, span |-> IdentSpan(0)],
     generics |-> d.generics,
     data |-> [kind |-> d.kind,
               variants |-> [i \in 1..Len(d.variants) |-> ParseVariant(d.variants[i], i)]]]

Ok(x) == [ok |-> TRUE, value |-> x]
Err(e) == [ok |-> FALSE, err |-> e]

\* syn::parse::<DeriveInput>: the syntax tree, or syn's error, with its
\* message, at the first expression it does not parse.
ParseDeriveInput(d) ==
    IF d.unsupported # <<>>
    THEN Err(ErrorNew(ExprSpan(d.unsupported[1].owner), d.unsupported[1].message))
    ELSE Ok(SyntaxTree(d))

\* syn::Error::to_compile_error().into(): a token stream of one
\* compile_error item carrying the message at the error's span.
ToCompileError(err) ==
    << [kind |-> "compile_error", message |-> err.message, span |-> err.span] >>

\* Variation of IsNonExhaustive: every attribute is taken for the marker.
IsAnyAttribute(attr) == attr.path \in AttrPaths

\* attr.path().is_ident("non_exhaustive")
IsNonExhaustive(attr) == attr.path = "non_exhaustive"

\* Variation of FindNonExhaustive: only the first attribute is looked at.
FindFirstOnly(attrs) ==
    IF attrs # <<>> /\ IsNonExhaustive(attrs[1]) THEN Some(attrs[1]) ELSE None

\* Iterator::find: the first attribute of the list that is the marker.
FindNonExhaustive(attrs) ==
    LET hits == {j \in 1..Len(attrs) : IsNonExhaustive(attrs[j])}
    IN  IF hits = {} THEN None
        ELSE Some(attrs[CHOOSE j \in hits : \A k \in hits : j <= k])

\* Variation of non_exhaustive_error: no attribute is an error.
NoMarkerError(attrs) == None

non_exhaustive_error(attrs) ==
    LET found == FindNonExhaustive(attrs)
    IN  IF found.some
        THEN Some(ErrorNew(found.value.span, MsgOpenExtensionNotSupported))
        ELSE None

\* ---------------------------------------------------------- derive_enumly

\* Variation of PushNext: the identifier is put in front.
PushFront(variant_idents, ident) == <<ident>> \o variant_idents

\* variant_idents.push(variant.ident)
PushNext(variant_idents, ident) == Append(variant_idents, ident)

\* Variation of IsUnit: only struct variants are refused.
IsNotNamed(fields) == fields # "Named"

\* Fields::Unit => ..., _ => ...
IsUnit(fields) == fields = "Unit"

\* Variation of VariantBody: the shape is checked before the marker.
VariantBodyShapeFirst(variant, variant_idents) ==
    IF ~IsUnit(variant.fields)
    THEN [ret |-> ToCompileError(ErrorNew(variant.ident.span, MsgNonUnitVariant)),
          variant_idents |-> variant_idents]
    ELSE LET err == non_exhaustive_error(variant.attrs)
         IN  IF err.some
             THEN [ret |-> ToCompileError(err.value), variant_idents |-> variant_idents]
             ELSE [ret |-> <<>>,
                   variant_idents |-> PushNext(variant_idents, variant.ident)]

\* One iteration of the loop over data_enum.variants: ret is the token
\* stream returned from inside the loop (<<>> when the loop goes on).
VariantBody(variant, variant_idents) ==
    LET err == non_exhaustive_error(variant.attrs)
    IN  IF err.some
        THEN [ret |-> ToCompileError(err.value), variant_idents |-> variant_idents]
        ELSE IF IsUnit(variant.fields)
        THEN [ret |-> <<>>, variant_idents |-> PushNext(variant_idents, variant.ident)]
        ELSE [ret |-> ToCompileError(ErrorNew(variant.ident.span, MsgNonUnitVariant)),
              variant_idents |-> variant_idents]

\* Variation of VariantExprs: every entry refers to the first identifier.
VariantExprsFirst(variant_idents) ==
    [k \in 1..Len(variant_idents) |-> <<"Self", variant_idents[1].name>>]

\* variant_idents.iter().map(|variant| quote! { Self::#variant })
VariantExprs(variant_idents) ==
    [k \in 1..Len(variant_idents) |-> <<"Self", variant_idents[k].name>>]

\* Generics::split_for_impl: the parameters with their bounds, the
\* parameters alone, and the where clause.
SplitForImpl(generics) ==
    [impl_generics |-> generics.params,
     ty_generics |-> [k \in 1..Len(generics.params) |-> generics.params[k].ident],
     where_clause |-> generics.where_clause]

\* Variation of ImplConsts: the VARIANTS constant is left out.
ImplCountOnly(count, variant_exprs) == [COUNT |-> count]

\* The two constants of the impl block.
ImplConsts(count, variant_exprs) == [COUNT |-> count, VARIANTS |-> variant_exprs]

\* The quote! of the impl block with the two constants.
Expanded(inp, variant_idents) ==
    LET count == Len(variant_idents)
        variant_exprs == VariantExprs(variant_idents)
        split == SplitForImpl(inp.generics)
    IN  << [kind |-> "impl",
            name |-> inp.ident.name,
            impl_generics |-> split.impl_generics,
            ty_generics |-> split.ty_generics,
            where_clause |-> split.where_clause,
            consts |-> ImplConsts(count, variant_exprs)] >>

\* The loop over the variants, from the variants not yet visited.
RECURSIVE ForVariants(_, _, _)
ForVariants(inp, rest, variant_idents) ==
    IF rest = <<>> THEN Expanded(inp, variant_idents)
    ELSE LET step == VariantBody(Head(rest), variant_idents)
         IN  IF step.ret # <<>> THEN step.ret
             ELSE ForVariants(inp, Tail(rest), step.variant_idents)

\* The function after the parse, from the DeriveInput to the returned
\* token stream.
DeriveParsed(inp) ==
    LET err == non_exhaustive_error(inp.attrs)
    IN  IF err.some THEN ToCompileError(err.value)
        ELSE IF inp.data.kind # "Enum"
        THEN ToCompileError(ErrorNew(inp.ident.span, MsgInvalidTargetKind))
        ELSE ForVariants(inp, inp.data.variants, <<>>)

\* The whole function, from its argument to the returned token stream.
derive_enumly(toks) ==
    LET parsed == ParseDeriveInput(toks)
    IN  IF parsed.ok THEN DeriveParsed(parsed.value)
        ELSE ToCompileError(parsed.err)

\* ----------------------------------------------------------- state machine

\* The DeriveInput before the parse: there is none.
NotParsed == [attrs |-> <<>>]

VARIABLES
    tokens,          \* the argument of the function: the declaration
    input,           \* the parsed DeriveInput
    pc,              \* the statement derive_enumly is at
    variants,        \* data_enum.variants not yet visited by the loop
    variant_idents,  \* the Vec of the unit variants' identifiers
    ret,             \* the returned TokenStream, <<>> until the return
    returned         \* what the earlier invocations on this input returned

vars == <<tokens, input, pc, variants, variant_idents, ret, returned>>

Init ==
    /\ \/ \E n \in 0..MaxVariants :
             \E f \in AttrAssignments(n) :
                \E g \in GenericsDecls, sh \in [1..n -> VariantShapes], u \in SynFailures(n) :
                   tokens = EnumDecl(f, g, sh, u)
       \/ \E k \in DataKinds \ {"Enum"} :
             \E f \in AttrAssignments(0) :
                \E g \in GenericsDecls, u \in SynFailures(0) :
                   tokens = OtherDecl(k, f, g, u)
    /\ input = NotParsed
    /\ pc = "parse"
    /\ variants = <<>>
    /\ variant_idents = <<>>
    /\ ret = <<>>
    /\ returned = <<>>

\* let input = parse_macro_input!(input as DeriveInput);
\* the macro returns the parse error as a compile_error.
ParseInput ==
    /\ pc = "parse"
    /\ LET parsed == ParseDeriveInput(tokens)
       IN  IF parsed.ok
           THEN /\ input' = parsed.value
                /\ ret' = ret
                /\ pc' = "type_attrs"
           ELSE /\ ret' = ToCompileError(parsed.err)
                /\ pc' = "done"
                /\ input' = input
    /\ UNCHANGED <<tokens, variants, variant_idents, returned>>

\* if let Some(err) = non_exhaustive_error(&input.attrs) { return ... }
CheckTypeAttrs ==
    /\ pc = "type_attrs"
    /\ LET err == non_exhaustive_error(input.attrs)
       IN  IF err.some
           THEN /\ ret' = ToCompileError(err.value)
                /\ pc' = "done"
           ELSE /\ ret' = ret
                /\ pc' = "match_data"
    /\ UNCHANGED <<tokens, input, variants, variant_idents, returned>>

\* let data_enum = match input.data { Data::Enum(e) => e, _ => return ... };
\* let mut variant_idents = Vec::with_capacity(...);
MatchData ==
    /\ pc = "match_data"
    /\ IF input.data.kind = "Enum"
       THEN /\ variants' = input.data.variants
            /\ variant_idents' = <<>>
            /\ ret' = ret
            /\ pc' = "for_variant"
       ELSE /\ ret' = ToCompileError(ErrorNew(input.ident.span, MsgInvalidTargetKind))
            /\ pc' = "done"
            /\ UNCHANGED <<variants, variant_idents>>
    /\ UNCHANGED <<tokens, input, returned>>

\* for variant in data_enum.variants { ... }: one iteration.
ForVariant ==
    /\ pc = "for_variant"
    /\ variants # <<>>
    /\ LET step == VariantBody(Head(variants), variant_idents)
       IN  /\ variant_idents' = step.variant_idents
           /\ ret' = step.ret
           /\ pc' = IF step.ret # <<>> THEN "done" ELSE "for_variant"
    /\ variants' = Tail(variants)
    /\ UNCHANGED <<tokens, input, returned>>

Reorderings(n) == {p \in [1..n -> 1..n] : \A i, j \in 1..n : p[i] = p[j] => i = j}
Permute(seq, p) == [i \in 1..Len(seq) |-> seq[p[i]]]

\* Variation of Expand: the identifiers are kept in a hash set, whose
\* iteration order is any order and may differ from one call to the next.
ExpandAnyOrder ==
    /\ pc = "for_variant"
    /\ variants = <<>>
    /\ \E p \in Reorderings(Len(variant_idents)) :
          ret' = Expanded(input, Permute(variant_idents, p))
    /\ pc' = "done"
    /\ UNCHANGED <<tokens, input, variants, variant_idents, returned>>

\* The loop is over: build the impl block and return it.
Expand ==
    /\ pc = "for_variant"
    /\ variants = <<>>
    /\ ret' = Expanded(input, variant_idents)
    /\ pc' = "done"
    /\ UNCHANGED <<tokens, input, variants, variant_idents, returned>>

Next == ParseInput \/ CheckTypeAttrs \/ MatchData \/ ForVariant \/ Expand

Spec == Init /\ [][Next]_vars

\* #[proc_macro_derive(Enumly)]: the compiler calls the function again on
\* the same declaration.  The token stream of the call that is over has
\* been handed to the compiler and its locals are gone: the function has
\* no static and nothing else that outlives a call.
Invoke ==
    /\ pc = "done"
    /\ Len(returned) < MaxCalls - 1
    /\ returned' = Append(returned, ret)
    /\ ret' = <<>>
    /\ input' = NotParsed
    /\ variants' = <<>>
    /\ variant_idents' = <<>>
    /\ pc' = "parse"
    /\ UNCHANGED tokens

NextReinvoke == Next \/ Invoke

SpecReinvoke == Init /\ [][NextReinvoke]_vars

TypeOK ==
    /\ pc \in {"parse", "type_attrs", "match_data", "for_variant", "done"}
    /\ Len(ret) <= 1
    /\ (pc = "done") = (ret # <<>>)

\* A declaration syn does not parse gets syn's error and nothing else.
ParseErrorReturned ==
    (pc = "done" /\ tokens.unsupported # <<>>) =>
        ret = << [kind |-> "compile_error",
                  message |-> tokens.unsupported[1].message,
                  span |-> [owner |-> tokens.unsupported[1].owner, part |-> "expr",
                            index |-> 0]] >>

\* The steps return what the function returns.
StepsAgree == pc = "done" => ret = derive_enumly(tokens)

\* ------------------------------------------------------------- properties

Done == pc = "done"
\* The argument parses: it is a type description (a DeriveInput).
Parses == tokens.unsupported = <<>>
IsEnum == tokens.kind = "Enum"
Declared == tokens.variants
NumDeclared == Len(Declared)

\* The item's attribute list holds the #[non_exhaustive] marker.
HasMarker(attrs) == \E j \in 1..Len(attrs) : attrs[j] = "non_exhaustive"

NonUnitAt == {i \in 1..NumDeclared : Declared[i].fields # "Unit"}
MarkedAt == {i \in 1..NumDeclared : HasMarker(Declared[i].attrs)}
Least(S) == CHOOSE i \in S : \A k \in S : i <= k

\* The returned token stream is exactly one diagnostic with this message.
ReturnsDiagnostic(message) ==
    /\ Len(ret) = 1
    /\ ret[1].kind = "compile_error"
    /\ ret[1].message = message

\* The returned token stream is exactly the impl block.
ReturnsImpl == Len(ret) = 1 /\ ret[1].kind = "impl"

\* An enum of unit variants with no marker anywhere.
PlainUnitEnum ==
    /\ Parses
    /\ IsEnum
    /\ ~HasMarker(tokens.attrs)
    /\ NonUnitAt = {}
    /\ MarkedAt = {}

\* C1: for a type description that is an enum of N unit variants (N >= 0) with no #[non_exhaustive]
\* marker on the type or on a variant, derive_enumly returns the impl block,
\* COUNT is N and VARIANTS has exactly N entries, the i-th being the i-th
\* declared variant.
C1_CountAndVariants ==
    (Done /\ PlainUnitEnum) =>
        /\ ReturnsImpl
        /\ ret[1].consts.COUNT = NumDeclared
        /\ Len(ret[1].consts.VARIANTS) = NumDeclared
        /\ \A i \in 1..NumDeclared :
              ret[1].consts.VARIANTS[i] = <<"Self", Declared[i].ident>>

C1_Witness ==
    /\ Done
    /\ PlainUnitEnum
    /\ NumDeclared = 2
    /\ Declared[1].ident # Declared[2].ident
    /\ ReturnsImpl
    /\ ret[1].consts.COUNT = 2

\* C2: for a type description that is not an enum, derive_enumly fails with the
\* InvalidTargetKind diagnostic at the type's identifier, whatever markers
\* the type carries.
C2_TargetKindFirst ==
    (Done /\ Parses /\ ~IsEnum) =>
        /\ ReturnsDiagnostic(MsgInvalidTargetKind)
        /\ ret[1].span = [owner |-> 0, part |-> "ident", index |-> 0]

\* C3 as stated: for every type description with at least one non-unit variant,
\* derive_enumly fails with NonUnitVariant at the first such variant.
C3_Original ==
    (Done /\ Parses /\ NonUnitAt # {}) =>
        /\ ReturnsDiagnostic(MsgNonUnitVariant)
        /\ ret[1].span = [owner |-> Least(NonUnitAt), part |-> "ident", index |-> 0]

\* C3 amended: for a type description that is an enum with no marker on the type, with at least one
\* non-unit variant and no marker on a variant declared at or before the
\* first non-unit variant, derive_enumly fails with NonUnitVariant at the
\* identifier of the first non-unit variant and returns no constants.
C3_NonUnitVariant ==
    (/\ Done
     /\ Parses
     /\ IsEnum
     /\ ~HasMarker(tokens.attrs)
     /\ NonUnitAt # {}
     /\ \A i \in MarkedAt : i > Least(NonUnitAt)) =>
        /\ ReturnsDiagnostic(MsgNonUnitVariant)
        /\ ret[1].span = [owner |-> Least(NonUnitAt), part |-> "ident", index |-> 0]

C3_Witness ==
    /\ Done
    /\ Parses
    /\ IsEnum
    /\ ~HasMarker(tokens.attrs)
    /\ NumDeclared = 2
    /\ Declared[1].fields = "Unit"
    /\ Declared[2].fields = "Unnamed"
    /\ MarkedAt = {}
    /\ ReturnsDiagnostic(MsgNonUnitVariant)
    /\ ret[1].span.owner = 2

\* C4 as stated: for every type description where the type or at least one variant
\* carries the marker, derive_enumly fails with OpenExtensionNotSupported.
C4_Original ==
    (Done /\ Parses /\ (HasMarker(tokens.attrs) \/ MarkedAt # {})) =>
        ReturnsDiagnostic(MsgOpenExtensionNotSupported)

\* C4 amended: for a type description, when the type carries the marker, or the type is an enum in
\* which a variant carries the marker and every variant declared before the
\* first marked variant is unit-shaped, derive_enumly fails with
\* OpenExtensionNotSupported and returns no constants, also when every
\* variant is unit-shaped.
C4_OpenExtension ==
    (/\ Done
     /\ Parses
     /\ \/ HasMarker(tokens.attrs)
        \/ /\ IsEnum
           /\ MarkedAt # {}
           /\ \A i \in NonUnitAt : i >= Least(MarkedAt)) =>
        ReturnsDiagnostic(MsgOpenExtensionNotSupported)

C4_Witness ==
    /\ Done
    /\ Parses
    /\ IsEnum
    /\ ~HasMarker(tokens.attrs)
    /\ NumDeclared = 2
    /\ NonUnitAt = {}
    /\ MarkedAt = {2}
    /\ ReturnsDiagnostic(MsgOpenExtensionNotSupported)

\* C5: an OpenExtensionNotSupported diagnostic is located in the marked
\* item: in the type when the marker is on the type, and otherwise in the
\* first variant that carries the marker.
C5_LocationIsMarkedItem ==
    (Done /\ ReturnsDiagnostic(MsgOpenExtensionNotSupported)) =>
        IF HasMarker(tokens.attrs)
        THEN ret[1].span.owner = 0
        ELSE /\ MarkedAt # {}
             /\ ret[1].span.owner = Least(MarkedAt)

C5_Witness ==
    /\ Done
    /\ ReturnsDiagnostic(MsgOpenExtensionNotSupported)
    /\ ~HasMarker(tokens.attrs)
    /\ NumDeclared = 2
    /\ MarkedAt = {2}
    /\ Len(Declared[2].attrs) = 2
    /\ ret[1].span.owner = 2

\* C6: nothing is returned before the function is over, and what it returns
\* is exactly one item: the impl block with both constants, or one
\* diagnostic; never a diagnostic with constants, never two diagnostics.
C6_OneOutcome ==
    /\ ~Done => ret = <<>>
    /\ Done =>
        /\ Len(ret) = 1
        /\ \/ ret[1].kind = "compile_error"
           \/ /\ ret[1].kind = "impl"
              /\ DOMAIN ret[1].consts = {"COUNT", "VARIANTS"}

\* An input that breaks several rules still gets one diagnostic.
C6_Witness ==
    /\ Done
    /\ Parses
    /\ IsEnum
    /\ HasMarker(tokens.attrs)
    /\ NonUnitAt # {}
    /\ Len(ret) = 1
    /\ ret[1].kind = "compile_error"

\* The declaration with its variants permuted by p.
PermutedInput(d, p) == [d EXCEPT !.variants = Permute(d.variants, p)]

\* C7: for an accepted enum and every permutation p of its declared
\* variants, the derive of the permuted declaration is accepted, its
\* VARIANTS is the original VARIANTS permuted by p, and COUNT is the same.
C7_OrderPreservation ==
    (Done /\ ReturnsImpl) =>
        \A p \in Reorderings(NumDeclared) :
            LET other == derive_enumly(PermutedInput(tokens, p))
            IN  /\ Len(other) = 1
                /\ other[1].kind = "impl"
                /\ other[1].consts.VARIANTS = Permute(ret[1].consts.VARIANTS, p)
                /\ other[1].consts.COUNT = ret[1].consts.COUNT

C7_Witness ==
    /\ Done
    /\ ReturnsImpl
    /\ NumDeclared = 2
    /\ ret[1].consts.VARIANTS = << <<"Self", "Red">>, <<"Self", "Green">> >>
    /\ derive_enumly(PermutedInput(tokens, <<2, 1>>))[1].consts.VARIANTS
          = << <<"Self", "Green">>, <<"Self", "Red">> >>

\* C8: invoking derive_enumly again on the same declaration returns the
\* same token stream (the same impl block, or the same diagnostic at the
\* same span) as every earlier invocation.
C8_Determinism ==
    Done => \A k \in 1..Len(returned) : returned[k] = ret

C8_Witness ==
    /\ Done
    /\ Len(returned) = 1
    /\ NumDeclared = 2
    /\ ReturnsImpl
    /\ ret[1].consts.COUNT = 2
    /\ returned[1] = ret

OffendingAt == NonUnitAt \cup MarkedAt

\* The declaration cut after its first n variants.
TruncatedInput(d, n) == [d EXCEPT !.variants = SubSeq(d.variants, 1, n)]

\* C9: when the scan of the variants of a parsed, unmarked enum meets a marked or
\* non-unit variant, it stops at the first one: the diagnostic is
\* OpenExtensionNotSupported in that variant if it is marked (non-unit or
\* not), NonUnitVariant at its identifier otherwise; the variants after it
\* are never visited and the declaration cut after it gets the same
\* diagnostic.
C9_SinglePass ==
    (Done /\ Parses /\ IsEnum /\ ~HasMarker(tokens.attrs) /\ OffendingAt # {}) =>
        LET first == Least(OffendingAt)
        IN  /\ IF first \in MarkedAt
               THEN /\ ReturnsDiagnostic(MsgOpenExtensionNotSupported)
                    /\ ret[1].span.owner = first
                    /\ ret[1].span.part = "attr"
               ELSE /\ ReturnsDiagnostic(MsgNonUnitVariant)
                    /\ ret[1].span = [owner |-> first, part |-> "ident", index |-> 0]
            /\ Len(variants) = NumDeclared - first
            /\ \A k \in 1..Len(variants) :
                  variants[k].ident.span = [owner |-> first + k, part |-> "ident",
                                            index |-> 0]
            /\ derive_enumly(TruncatedInput(tokens, first)) = ret

C9_Witness ==
    /\ Done
    /\ Parses
    /\ IsEnum
    /\ ~HasMarker(tokens.attrs)
    /\ NumDeclared = 2
    /\ 1 \in MarkedAt
    /\ NonUnitAt = {1, 2}
    /\ ReturnsDiagnostic(MsgOpenExtensionNotSupported)
    /\ ret[1].span.owner = 1
    /\ Len(variants) = 1

\* The loop over the variants is over: the next step is the expansion.
AtSynthesis == pc = "for_variant" /\ variants = <<>>

\* C10: when derive_enumly is at the expansion, and when it has returned
\* the impl block, the input parsed and is an enum, no marker is on the type or on a
\* variant and every variant is unit-shaped; the step taken from the
\* expansion returns the impl block, not a diagnostic.
C10_ValidationGate ==
    [][/\ AtSynthesis => (PlainUnitEnum /\ ReturnsImpl')
       /\ ReturnsImpl' => PlainUnitEnum']_vars

C10_Witness ==
    /\ Done
    /\ ReturnsImpl
    /\ PlainUnitEnum
    /\ NumDeclared = 2
    /\ Len(variant_idents) = 2
    /\ variant_idents[1].name = Declared[1].ident
    /\ variant_idents[2].name = Declared[2].ident

====
